---- MODULE Spec2Model ----
(***************************************************************************)
(* serde_repr_base64: the three #[serde(with)] adaptors of src/src/lib.rs  *)
(* (base64, base64_if_readable, base64_string) as a state machine.         *)
(*                                                                         *)
(* Text is a sequence of byte values (ASCII / UTF-8 code units), a string  *)
(* value is a sequence of Unicode scalar values, an element sequence is a  *)
(* sequence of naturals below 2^(8 * size_of U).  The wire holds what the  *)
(* adaptor hands to the serde Serializer: one str token, or the tokens of  *)
(* the value's own Serialize impl (a seq for Vec<U>, a tuple for [U; N]).  *)
(***************************************************************************)
EXTENDS Integers, Sequences, FiniteSets, TLC

VARIABLES
    target,   \* the field type T of the #[serde(with)] field
    hr,       \* is_human_readable() of the format's Serializer / Deserializer
    endian,   \* byte order of the build (bytemuck casts are native-endian)
    item,     \* the source value being serialized, if any
    wire,     \* the token written by serialize / read by deserialize
    ptr,      \* address of the Vec<u8> that URL_SAFE.decode returned
    result,   \* Result<T, D::Error> of the last deserialize
    adaptor,  \* the module whose function ran last
    pc        \* "start", "serialized", "done"

vars == <<target, hr, endian, item, wire, ptr, result, adaptor, pc>>

----------------------------------------------------------------------------
(* Bounds of the model.                                                    *)

\* longest Vec<U> source value, in elements
MaxLen == 3
\* longest text handed to deserialize that no serialize produced
MaxTextLen == 4
\* longest source string, in chars
MaxStrLen == 2
\* capacity, in bytes, of the fallible string target
StrCap == 1

----------------------------------------------------------------------------
(* Small helpers on sequences.                                             *)

SeqsUpTo(S, n) == UNION {[1..k -> S] : k \in 0..n}

\* needle occurs in hay as a contiguous substring
Contains(hay, needle) ==
    \E i \in 0..(Len(hay) - Len(needle)) :
        \A j \in 1..Len(needle) : hay[i + j] = needle[j]

RECURSIVE Dec(_)
\* decimal digits of n, as `{}` formats an unsigned integer
Dec(n) == IF n < 10 THEN <<48 + n>> ELSE Dec(n \div 10) \o <<48 + (n % 10)>>

RECURSIVE Flatten(_)
Flatten(ss) == IF Len(ss) = 0 THEN <<>> ELSE Head(ss) \o Flatten(Tail(ss))

----------------------------------------------------------------------------
(* Message literals, as ASCII.                                             *)

\* " is not a valid utf-8 string"
MsgNotValidSuffix ==
    <<32, 105, 115, 32, 110, 111, 116, 32, 97, 32, 118, 97, 108, 105, 100, 32,
      117, 116, 102, 45, 56, 32, 115, 116, 114, 105, 110, 103>>
\* "Invalid symbol "
MsgInvalidSymbol ==
    <<73, 110, 118, 97, 108, 105, 100, 32, 115, 121, 109, 98, 111, 108, 32>>
\* ", offset "
MsgOffset ==
    <<44, 32, 111, 102, 102, 115, 101, 116, 32>>
\* "."
MsgDot ==
    <<46>>
\* "Invalid input length "
MsgInvalidInputLength ==
    <<73, 110, 118, 97, 108, 105, 100, 32, 105, 110, 112, 117, 116, 32, 108,
      101, 110, 103, 116, 104, 32>>
\* "Invalid last symbol "
MsgInvalidLastSymbol ==
    <<73, 110, 118, 97, 108, 105, 100, 32, 108, 97, 115, 116, 32, 115, 121,
      109, 98, 111, 108, 32>>
\* "Invalid padding"
MsgInvalidPadding ==
    <<73, 110, 118, 97, 108, 105, 100, 32, 112, 97, 100, 100, 105, 110, 103>>
\* "TargetAlignmentGreaterAndInputNotAligned"
MsgAlignment ==
    <<84, 97, 114, 103, 101, 116, 65, 108, 105, 103, 110, 109, 101, 110, 116,
      71, 114, 101, 97, 116, 101, 114, 65, 110, 100, 73, 110, 112, 117, 116,
      78, 111, 116, 65, 108, 105, 103, 110, 101, 100>>
\* "OutputSliceWouldHaveSlop"
MsgSlop ==
    <<79, 117, 116, 112, 117, 116, 83, 108, 105, 99, 101, 87, 111, 117, 108,
      100, 72, 97, 118, 101, 83, 108, 111, 112>>
\* "could not convert slice to array"
MsgTryFromSlice ==
    <<99, 111, 117, 108, 100, 32, 110, 111, 116, 32, 99, 111, 110, 118, 101,
      114, 116, 32, 115, 108, 105, 99, 101, 32, 116, 111, 32, 97, 114, 114,
      97, 121>>
\* "invalid utf-8 sequence of "
MsgInvalidUtf8Of ==
    <<105, 110, 118, 97, 108, 105, 100, 32, 117, 116, 102, 45, 56, 32, 115,
      101, 113, 117, 101, 110, 99, 101, 32, 111, 102, 32>>
\* " bytes from index "
MsgBytesFromIndex ==
    <<32, 98, 121, 116, 101, 115, 32, 102, 114, 111, 109, 32, 105, 110, 100,
      101, 120, 32>>
\* "incomplete utf-8 byte sequence from index "
MsgIncompleteUtf8 ==
    <<105, 110, 99, 111, 109, 112, 108, 101, 116, 101, 32, 117, 116, 102, 45,
      56, 32, 98, 121, 116, 101, 32, 115, 101, 113, 117, 101, 110, 99, 101,
      32, 102, 114, 111, 109, 32, 105, 110, 100, 101, 120, 32>>
\* "invalid type"
MsgInvalidType ==
    <<105, 110, 118, 97, 108, 105, 100, 32, 116, 121, 112, 101>>
\* "capacity exceeded"
MsgCapacity ==
    <<99, 97, 112, 97, 99, 105, 116, 121, 32, 101, 120, 99, 101, 101, 100,
      101, 100>>

----------------------------------------------------------------------------
(* Results.  Ok(v) and Err(kind, msg) of Result<T, D::Error>; the error    *)
(* carrier is serde::de::Error::custom(msg).                               *)

NoResult == [set |-> FALSE, ok |-> FALSE, val |-> <<>>, kind |-> "none", msg |-> <<>>]
Ok(v) == [set |-> TRUE, ok |-> TRUE, val |-> v, kind |-> "none", msg |-> <<>>]
Err(kind, msg) == [set |-> TRUE, ok |-> FALSE, val |-> <<>>, kind |-> kind, msg |-> msg]

----------------------------------------------------------------------------
(* base64::engine::general_purpose::URL_SAFE: the URL-safe alphabet, with  *)
(* '=' padding written on encode and required, canonical, on decode, and   *)
(* trailing bits refused.                                                  *)

\* '='
PAD_BYTE == 61
\* marks a byte outside the alphabet in the decode table
INVALID_VALUE == 255

\* the standard alphabet: '+' and '/' for 62 and 63
AlphabetStandard(i) ==
    IF i < 26 THEN 65 + i
    ELSE IF i < 52 THEN 97 + (i - 26)
    ELSE IF i < 62 THEN 48 + (i - 52)
    ELSE IF i = 62 THEN 43 ELSE 47

\* symbol of the 6-bit value i: A-Z a-z 0-9 - _
Alphabet(i) ==
    IF i < 26 THEN 65 + i
    ELSE IF i < 52 THEN 97 + (i - 26)
    ELSE IF i < 62 THEN 48 + (i - 52)
    ELSE IF i = 62 THEN 45 ELSE 95

\* the engine's decode table: the 6-bit value of symbol c, or INVALID_VALUE
DecodeTable(c) ==
    IF \E i \in 0..63 : Alphabet(i) = c
    THEN CHOOSE i \in 0..63 : Alphabet(i) = c
    ELSE INVALID_VALUE

RECURSIVE EncodeNoPad(_)
\* encoding without the trailing '=' (the URL_SAFE_NO_PAD engine)
EncodeNoPad(bytes) ==
    IF Len(bytes) = 0 THEN <<>>
    ELSE IF Len(bytes) = 1 THEN
        <<Alphabet(bytes[1] \div 4), Alphabet((bytes[1] % 4) * 16)>>
    ELSE IF Len(bytes) = 2 THEN
        <<Alphabet(bytes[1] \div 4),
          Alphabet((bytes[1] % 4) * 16 + bytes[2] \div 16),
          Alphabet((bytes[2] % 16) * 4)>>
    ELSE
        <<Alphabet(bytes[1] \div 4),
          Alphabet((bytes[1] % 4) * 16 + bytes[2] \div 16),
          Alphabet((bytes[2] % 16) * 4 + bytes[3] \div 64),
          Alphabet(bytes[3] % 64)>>
        \o EncodeNoPad(SubSeq(bytes, 4, Len(bytes)))

RECURSIVE Encode(_)
\* URL_SAFE.encode(bytes): 3 bytes to 4 symbols, the last group padded
Encode(bytes) ==
    IF Len(bytes) = 0 THEN <<>>
    ELSE IF Len(bytes) = 1 THEN
        <<Alphabet(bytes[1] \div 4), Alphabet((bytes[1] % 4) * 16),
          PAD_BYTE, PAD_BYTE>>
    ELSE IF Len(bytes) = 2 THEN
        <<Alphabet(bytes[1] \div 4),
          Alphabet((bytes[1] % 4) * 16 + bytes[2] \div 16),
          Alphabet((bytes[2] % 16) * 4),
          PAD_BYTE>>
    ELSE
        <<Alphabet(bytes[1] \div 4),
          Alphabet((bytes[1] % 4) * 16 + bytes[2] \div 16),
          Alphabet((bytes[2] % 16) * 4 + bytes[3] \div 64),
          Alphabet(bytes[3] % 64)>>
        \o Encode(SubSeq(bytes, 4, Len(bytes)))

\* DecodeError values and their Display text
DecodeOk(bytes) == [ok |-> TRUE, bytes |-> bytes, kind |-> "none", index |-> 0, byte |-> 0]
InvalidByte(index, byte) ==
    [ok |-> FALSE, bytes |-> <<>>, kind |-> "InvalidByte", index |-> index, byte |-> byte]
InvalidLength(len) ==
    [ok |-> FALSE, bytes |-> <<>>, kind |-> "InvalidLength", index |-> len, byte |-> 0]
InvalidLastSymbol(index, byte) ==
    [ok |-> FALSE, bytes |-> <<>>, kind |-> "InvalidLastSymbol", index |-> index, byte |-> byte]
InvalidPadding ==
    [ok |-> FALSE, bytes |-> <<>>, kind |-> "InvalidPadding", index |-> 0, byte |-> 0]

DecodeErrorDisplay(e) ==
    IF e.kind = "InvalidByte" THEN
        MsgInvalidSymbol \o Dec(e.byte) \o MsgOffset \o Dec(e.index) \o MsgDot
    ELSE IF e.kind = "InvalidLength" THEN
        MsgInvalidInputLength \o Dec(e.index)
    ELSE IF e.kind = "InvalidLastSymbol" THEN
        MsgInvalidLastSymbol \o Dec(e.byte) \o MsgOffset \o Dec(e.index) \o MsgDot
    ELSE MsgInvalidPadding

\* capacity of the output buffer: vec![0; estimate.decoded_len_estimate()]
DecodedLenEstimate(n) == ((n \div 4) + (IF n % 4 > 0 THEN 1 ELSE 0)) * 3

\* length of the quads decoded by the main loop; the last quad, complete or
\* not, is left to the suffix decoder
CompleteQuadsLen(n) ==
    LET rem == n % 4
        a == n - rem
    IN  IF rem = 0 THEN (IF a >= 4 THEN a - 4 ELSE 0) ELSE a

\* 0-based offsets below q of the bytes the main loop refuses
BadOffsets(input, q) == {i \in 0..(q - 1) : DecodeTable(input[i + 1]) = INVALID_VALUE}

Min(S) == CHOOSE x \in S : \A y \in S : x <= y

RECURSIVE SuffixScan(_, _, _, _, _, _)
\* the loop of decode_suffix over input[q..], from leftover index i, with the
\* padding seen so far, the offset of the first padding byte and the morsels
SuffixScan(input, q, i, pads, firstPad, morsels) ==
    IF q + i >= Len(input) THEN
        [ok |-> TRUE, err |-> InvalidPadding, pads |-> pads, morsels |-> morsels]
    ELSE
        LET b == input[q + i + 1] IN
        IF b = PAD_BYTE THEN
            IF i < 2 THEN
                [ok |-> FALSE, err |-> InvalidByte(q + i, b), pads |-> pads, morsels |-> morsels]
            ELSE SuffixScan(input, q, i + 1, pads + 1,
                            IF pads = 0 THEN i ELSE firstPad, morsels)
        ELSE IF pads > 0 THEN
            [ok |-> FALSE, err |-> InvalidByte(q + firstPad, PAD_BYTE),
             pads |-> pads, morsels |-> morsels]
        ELSE IF DecodeTable(b) = INVALID_VALUE THEN
            [ok |-> FALSE, err |-> InvalidByte(q + i, b), pads |-> pads, morsels |-> morsels]
        ELSE SuffixScan(input, q, i + 1, pads, firstPad, Append(morsels, b))

\* the check of an engine built with decode_allow_trailing_bits = true
TrailingBitsAllowed(morsels) == TRUE

\* no bit of the last symbol lies outside the bytes the suffix yields
TrailingBitsOk(morsels) ==
    LET m == Len(morsels)
        last == IF m = 0 THEN 0 ELSE DecodeTable(morsels[m])
    IN  IF m = 2 THEN last % 16 = 0
        ELSE IF m = 3 THEN last % 4 = 0
        ELSE TRUE

\* the bytes of up to four 6-bit morsels (symbols), high bits first
MorselBytes(syms) ==
    LET m == Len(syms)
        v(k) == IF k <= m THEN DecodeTable(syms[k]) ELSE 0
        b1 == v(1) * 4 + v(2) \div 16
        b2 == (v(2) % 16) * 16 + v(3) \div 4
        b3 == (v(3) % 4) * 64 + v(4)
    IN  IF m < 2 THEN <<>>
        ELSE IF m = 2 THEN <<b1>>
        ELSE IF m = 3 THEN <<b1, b2>>
        ELSE <<b1, b2, b3>>

RECURSIVE QuadBytes(_)
\* the main loop's output for complete, valid quads
QuadBytes(syms) ==
    IF Len(syms) = 0 THEN <<>>
    ELSE MorselBytes(SubSeq(syms, 1, 4)) \o QuadBytes(SubSeq(syms, 5, Len(syms)))

\* URL_SAFE.decode(input): Ok(bytes) or the DecodeError
Decode(input) ==
    LET n == Len(input)
        q == CompleteQuadsLen(n)
        bad == BadOffsets(input, q)
        sfx == SuffixScan(input, q, 0, 0, 0, <<>>)
        m == Len(sfx.morsels)
    IN  IF n % 4 = 1 /\ input[n] # PAD_BYTE /\ DecodeTable(input[n]) = INVALID_VALUE
        THEN InvalidByte(n - 1, input[n])
        ELSE IF bad # {} THEN InvalidByte(Min(bad), input[Min(bad) + 1])
        ELSE IF ~sfx.ok THEN sfx.err
        ELSE IF n > 0 /\ m < 2 THEN InvalidLength(q + m)
        ELSE IF (sfx.pads + m) % 4 # 0 THEN InvalidPadding
        ELSE IF ~TrailingBitsOk(sfx.morsels)
        THEN InvalidLastSymbol(q + m - 1, sfx.morsels[m])
        ELSE DecodeOk(QuadBytes(SubSeq(input, 1, q)) \o MorselBytes(sfx.morsels))

----------------------------------------------------------------------------
(* UTF-8: str::as_bytes and String::from_utf8.                             *)

\* char::encode_utf8
EncodeUtf8(c) ==
    IF c < 128 THEN <<c>>
    ELSE IF c < 2048 THEN <<192 + c \div 64, 128 + (c % 64)>>
    ELSE IF c < 65536 THEN
        <<224 + c \div 4096, 128 + ((c \div 64) % 64), 128 + (c % 64)>>
    ELSE <<240 + c \div 262144, 128 + ((c \div 4096) % 64),
           128 + ((c \div 64) % 64), 128 + (c % 64)>>

\* item.as_ref().as_bytes()
AsBytes(chars) == Flatten([i \in 1..Len(chars) |-> EncodeUtf8(chars[i])])

IsCont(b) == b >= 128 /\ b <= 191

\* length of the sequence a first byte announces, 0 for a byte that starts none
Utf8Width(b) ==
    IF b < 128 THEN 1
    ELSE IF b >= 194 /\ b <= 223 THEN 2
    ELSE IF b >= 224 /\ b <= 239 THEN 3
    ELSE IF b >= 240 /\ b <= 244 THEN 4
    ELSE 0

\* the second byte of a 3 or 4 byte sequence is in the range its first byte allows
SecondOk(first, b) ==
    IF first = 224 THEN b >= 160 /\ b <= 191
    ELSE IF first = 237 THEN b >= 128 /\ b <= 159
    ELSE IF first = 240 THEN b >= 144 /\ b <= 191
    ELSE IF first = 244 THEN b >= 128 /\ b <= 143
    ELSE IsCont(b)

Utf8Ok(chars) == [ok |-> TRUE, chars |-> chars, valid_up_to |-> 0, error_len |-> 0]
\* Utf8Error { valid_up_to, error_len }, error_len 0 standing for None
Utf8Err(upto, len) == [ok |-> FALSE, chars |-> <<>>, valid_up_to |-> upto, error_len |-> len]

RECURSIVE Utf8Scan(_, _, _)
\* core::str::from_utf8 from 0-based index i, chars being those read so far
Utf8Scan(bytes, i, chars) ==
    IF i >= Len(bytes) THEN Utf8Ok(chars)
    ELSE
        LET n == Len(bytes)
            first == bytes[i + 1]
            w == Utf8Width(first)
            at(k) == bytes[i + k]
        IN  IF w = 0 THEN Utf8Err(i, 1)
            ELSE IF w = 1 THEN Utf8Scan(bytes, i + 1, Append(chars, first))
            ELSE IF w = 2 THEN
                IF i + 1 >= n THEN Utf8Err(i, 0)
                ELSE IF ~IsCont(at(2)) THEN Utf8Err(i, 1)
                ELSE Utf8Scan(bytes, i + 2,
                              Append(chars, (first - 192) * 64 + (at(2) - 128)))
            ELSE IF w = 3 THEN
                IF i + 1 >= n THEN Utf8Err(i, 0)
                ELSE IF ~SecondOk(first, at(2)) THEN Utf8Err(i, 1)
                ELSE IF i + 2 >= n THEN Utf8Err(i, 0)
                ELSE IF ~IsCont(at(3)) THEN Utf8Err(i, 2)
                ELSE Utf8Scan(bytes, i + 3,
                              Append(chars, (first - 224) * 4096
                                            + (at(2) - 128) * 64 + (at(3) - 128)))
            ELSE
                IF i + 1 >= n THEN Utf8Err(i, 0)
                ELSE IF ~SecondOk(first, at(2)) THEN Utf8Err(i, 1)
                ELSE IF i + 2 >= n THEN Utf8Err(i, 0)
                ELSE IF ~IsCont(at(3)) THEN Utf8Err(i, 2)
                ELSE IF i + 3 >= n THEN Utf8Err(i, 0)
                ELSE IF ~IsCont(at(4)) THEN Utf8Err(i, 3)
                ELSE Utf8Scan(bytes, i + 4,
                              Append(chars, (first - 240) * 262144
                                            + (at(2) - 128) * 4096
                                            + (at(3) - 128) * 64 + (at(4) - 128)))

\* String::from_utf8_lossy in place of from_utf8: U+FFFD for what is invalid
FromUtf8Lossy(bytes) ==
    LET r == Utf8Scan(bytes, 0, <<>>)
    IN  IF r.ok THEN r ELSE Utf8Ok(<<65533>>)

\* String::from_utf8(bytes)
FromUtf8(bytes) == Utf8Scan(bytes, 0, <<>>)

\* Display of FromUtf8Error
Utf8ErrorDisplay(e) ==
    IF e.error_len = 0 THEN MsgIncompleteUtf8 \o Dec(e.valid_up_to)
    ELSE MsgInvalidUtf8Of \o Dec(e.error_len) \o MsgBytesFromIndex \o Dec(e.valid_up_to)

----------------------------------------------------------------------------
(* Element types U and bytemuck's casts.                                   *)

\* size_of::<U>() and align_of::<U>(); u16 stands for the multi-byte numerics
SizeOf(U) == IF U = "u8" THEN 1 ELSE 2
AlignOf(U) == IF U = "u8" THEN 1 ELSE 2

\* the in-memory bytes of one element
ToNeBytes(x, U, e) ==
    IF SizeOf(U) = 1 THEN <<x>>
    ELSE IF e = "little" THEN <<x % 256, x \div 256>>
    ELSE <<x \div 256, x % 256>>

\* the element whose in-memory bytes are bs
FromNeBytes(bs, U, e) ==
    IF SizeOf(U) = 1 THEN bs[1]
    ELSE IF e = "little" THEN bs[1] + 256 * bs[2]
    ELSE bs[1] * 256 + bs[2]

\* bytemuck::cast_slice::<U, u8>(item.borrow())
CastSlice(elems, U, e) == Flatten([i \in 1..Len(elems) |-> ToNeBytes(elems[i], U, e)])

\* the elements of a byte slice whose length is a multiple of the width
Elements(bytes, U, e) ==
    [i \in 1..(Len(bytes) \div SizeOf(U)) |->
        FromNeBytes(SubSeq(bytes, (i - 1) * SizeOf(U) + 1, i * SizeOf(U)), U, e)]

\* a cast that keeps the whole elements of the slice and drops the rest
TryCastSliceTruncating(bytes, p, U, e) == Ok(Elements(bytes, U, e))

\* bytemuck::try_cast_slice::<u8, U>(slice), slice starting at address p
TryCastSlice(bytes, p, U, e) ==
    IF AlignOf(U) > 1 /\ p % AlignOf(U) # 0 THEN Err("cast", MsgAlignment)
    ELSE IF SizeOf(U) = 1 THEN Ok(bytes)
    ELSE IF Len(bytes) % SizeOf(U) = 0 THEN Ok(Elements(bytes, U, e))
    ELSE Err("cast", MsgSlop)

\* T::try_from(&[U]): Vec<U> copies the slice, [U; N] requires N elements
TryFromSlice(elems, tgt) ==
    IF tgt.shape = "Vec" THEN Ok(elems)
    ELSE IF Len(elems) = tgt.N THEN Ok(elems)
    ELSE Err("try_from", MsgTryFromSlice)

\* T::try_from(String): String takes any text, the bounded target at most
\* StrCap bytes
TryFromString(chars, tgt) ==
    IF tgt.shape = "String" THEN Ok(chars)
    ELSE IF Len(AsBytes(chars)) <= StrCap THEN Ok(chars)
    ELSE Err("try_from", MsgCapacity)

----------------------------------------------------------------------------
(* Tokens of the serde data model.                                         *)

NoWire == [kind |-> "none", data |-> <<>>]
StrToken(text) == [kind |-> "str", data |-> text]

\* item.serialize(serializer): Vec<U> is a seq, [U; N] a tuple of N
NativeSerialize(elems, tgt) ==
    IF tgt.shape = "Vec" THEN [kind |-> "seq", data |-> elems]
    ELSE [kind |-> "tuple", data |-> elems]

\* T::deserialize(deserializer)
NativeDeserialize(tok, tgt) ==
    IF tgt.shape = "Vec" THEN
        IF tok.kind = "seq" THEN Ok(tok.data) ELSE Err("invalid_type", MsgInvalidType)
    ELSE IF tok.kind = "tuple" /\ Len(tok.data) = tgt.N THEN Ok(tok.data)
    ELSE Err("invalid_type", MsgInvalidType)

\* address of an unallocated Vec<u8>: NonNull::dangling(), align_of::<u8>()
Dangling == 1
\* addresses the allocator may return for a layout of alignment 1
HeapAddrs == {16, 17}

\* addresses of the buffer URL_SAFE.decode returns for a text of n bytes
DecodedPtrs(n) == IF DecodedLenEstimate(n) = 0 THEN {Dangling} ELSE HeapAddrs

----------------------------------------------------------------------------
(* The adaptors.                                                           *)

\* base64_string::serialize with the URL_SAFE_NO_PAD engine
base64_string_serialize_no_pad(chars) == StrToken(EncodeNoPad(AsBytes(chars)))

\* base64_string::serialize
base64_string_serialize(chars) == StrToken(Encode(AsBytes(chars)))

\* base64_string::deserialize
base64_string_deserialize(tok, tgt) ==
    IF tok.kind # "str" THEN Err("invalid_type", MsgInvalidType)
    ELSE
        LET d == Decode(tok.data) IN
        IF ~d.ok THEN Err("base64", DecodeErrorDisplay(d))
        ELSE
            LET u == FromUtf8(d.bytes) IN
            IF ~u.ok THEN Err("utf8", Utf8ErrorDisplay(u))
            ELSE TryFromString(u.chars, tgt)

\* base64::serialize
base64_serialize(elems, tgt, e) == StrToken(Encode(CastSlice(elems, tgt.U, e)))

\* base64::deserialize reporting the codec's own error, as base64_string does
base64_deserialize_codec_error(tok, tgt, p, e) ==
    IF tok.kind # "str" THEN Err("invalid_type", MsgInvalidType)
    ELSE
        LET d == Decode(tok.data) IN
        IF ~d.ok THEN Err("base64", DecodeErrorDisplay(d))
        ELSE
            LET c == TryCastSlice(d.bytes, p, tgt.U, e) IN
            IF ~c.ok THEN c ELSE TryFromSlice(c.val, tgt)

\* base64::deserialize, the decoded buffer at address p
base64_deserialize(tok, tgt, p, e) ==
    IF tok.kind # "str" THEN Err("invalid_type", MsgInvalidType)
    ELSE
        LET d == Decode(tok.data) IN
        IF ~d.ok THEN Err("base64", tok.data \o MsgNotValidSuffix)
        ELSE
            LET c == TryCastSlice(d.bytes, p, tgt.U, e) IN
            IF ~c.ok THEN c ELSE TryFromSlice(c.val, tgt)

\* base64_if_readable::serialize without the is_human_readable branch
base64_if_readable_serialize_always(elems, tgt, e, readable) ==
    StrToken(Encode(CastSlice(elems, tgt.U, e)))

\* base64_if_readable::serialize
base64_if_readable_serialize(elems, tgt, e, readable) ==
    IF readable THEN StrToken(Encode(CastSlice(elems, tgt.U, e)))
    ELSE NativeSerialize(elems, tgt)

\* base64_if_readable::deserialize
base64_if_readable_deserialize(tok, tgt, p, e, readable) ==
    IF readable THEN
        IF tok.kind # "str" THEN Err("invalid_type", MsgInvalidType)
        ELSE
            LET d == Decode(tok.data) IN
            IF ~d.ok THEN Err("base64", tok.data \o MsgNotValidSuffix)
            ELSE
                LET c == TryCastSlice(d.bytes, p, tgt.U, e) IN
                IF ~c.ok THEN c ELSE TryFromSlice(c.val, tgt)
    ELSE NativeDeserialize(tok, tgt)

----------------------------------------------------------------------------
(* Inputs.                                                                 *)

\* element values: 0, 123, 0xFB, 0xFF and 0, 1, 0xFBFF, 0xFFFB
ElemValues(U) == IF U = "u8" THEN {0, 123, 251, 255} ELSE {0, 1, 64511, 65531}

\* 'A', U+00E9, U+20AC, U+1F600: one char of each encoded length
Chars == {65, 233, 8364, 128512}

\* 'Q', '_', '=', '!', '+'
TextChars == {81, 95, 61, 33, 43}

ArrayLens == {0, 1, 2}

SliceTargets ==
    {[kind |-> "slice", U |-> U, shape |-> "Vec", N |-> 0] : U \in {"u8", "u16"}}
    \cup {[kind |-> "slice", U |-> U, shape |-> "Array", N |-> n] :
            U \in {"u8", "u16"}, n \in ArrayLens}

StringTargets ==
    {[kind |-> "string", U |-> "u8", shape |-> sh, N |-> 0] : sh \in {"String", "Bounded"}}

Targets == SliceTargets \cup StringTargets

\* the legal source values of a target type
Values(tgt) ==
    IF tgt.kind = "slice" THEN
        IF tgt.shape = "Vec" THEN SeqsUpTo(ElemValues(tgt.U), MaxLen)
        ELSE [1..tgt.N -> ElemValues(tgt.U)]
    ELSE {s \in SeqsUpTo(Chars, MaxStrLen) : TryFromString(s, tgt).ok}

Texts == SeqsUpTo(TextChars, MaxTextLen)

Endians(tgt) == IF SizeOf(tgt.U) = 1 THEN {"little"} ELSE {"little", "big"}

None == [some |-> FALSE, val |-> <<>>]
Some(v) == [some |-> TRUE, val |-> v]

----------------------------------------------------------------------------
(* The state machine: a field is serialized and the token read back, or a  *)
(* token from elsewhere is read.                                           *)

Init ==
    /\ target \in Targets
    /\ hr \in BOOLEAN
    /\ endian \in Endians(target)
    /\ \/ /\ item \in {Some(v) : v \in Values(target)}
          /\ wire = NoWire
       \/ /\ item = None
          /\ wire \in {StrToken(t) : t \in Texts}
    /\ ptr = 0
    /\ result = NoResult
    /\ adaptor = "none"
    /\ pc = "start"

\* the token to read is there: a foreign one, or the one `a` wrote
Readable(a) ==
    \/ pc = "start" /\ ~item.some
    \/ pc = "serialized" /\ adaptor = a

Base64Serialize ==
    /\ pc = "start" /\ item.some /\ target.kind = "slice"
    /\ wire' = base64_serialize(item.val, target, endian)
    /\ adaptor' = "base64"
    /\ pc' = "serialized"
    /\ UNCHANGED <<target, hr, endian, item, ptr, result>>

Base64Deserialize ==
    /\ Readable("base64") /\ target.kind = "slice"
    /\ \E p \in DecodedPtrs(Len(wire.data)) :
        /\ ptr' = p
        /\ result' = base64_deserialize(wire, target, p, endian)
    /\ adaptor' = "base64"
    /\ pc' = "done"
    /\ UNCHANGED <<target, hr, endian, item, wire>>

IfReadableSerialize ==
    /\ pc = "start" /\ item.some /\ target.kind = "slice"
    /\ wire' = base64_if_readable_serialize(item.val, target, endian, hr)
    /\ adaptor' = "base64_if_readable"
    /\ pc' = "serialized"
    /\ UNCHANGED <<target, hr, endian, item, ptr, result>>

IfReadableDeserialize ==
    /\ Readable("base64_if_readable") /\ target.kind = "slice"
    /\ \E p \in (IF hr THEN DecodedPtrs(Len(wire.data)) ELSE {ptr}) :
        /\ ptr' = p
        /\ result' = base64_if_readable_deserialize(wire, target, p, endian, hr)
    /\ adaptor' = "base64_if_readable"
    /\ pc' = "done"
    /\ UNCHANGED <<target, hr, endian, item, wire>>

StringSerialize ==
    /\ pc = "start" /\ item.some /\ target.kind = "string"
    /\ wire' = base64_string_serialize(item.val)
    /\ adaptor' = "base64_string"
    /\ pc' = "serialized"
    /\ UNCHANGED <<target, hr, endian, item, ptr, result>>

StringDeserialize ==
    /\ Readable("base64_string") /\ target.kind = "string"
    /\ result' = base64_string_deserialize(wire, target)
    /\ adaptor' = "base64_string"
    /\ pc' = "done"
    /\ UNCHANGED <<target, hr, endian, item, wire, ptr>>

Next ==
    \/ Base64Serialize
    \/ Base64Deserialize
    \/ IfReadableSerialize
    \/ IfReadableDeserialize
    \/ StringSerialize
    \/ StringDeserialize

Spec == Init /\ [][Next]_vars

----------------------------------------------------------------------------
(* Vocabulary of the properties, stated without the codec's operators.     *)

\* A-Z a-z 0-9 - _
UrlSafeChars == (65..90) \cup (97..122) \cup (48..57) \cup {45, 95}

\* the 6-bit value of a URL-safe symbol
UrlSafeIndex(c) ==
    IF c \in 65..90 THEN c - 65
    ELSE IF c \in 97..122 THEN c - 71
    ELSE IF c \in 48..57 THEN c + 4
    ELSE IF c = 45 THEN 62 ELSE 63

\* number of '=' at the end of t
TrailingPads(t) ==
    LET n == Len(t)
    IN  IF n >= 1 /\ t[n] = 61 THEN (IF n >= 2 /\ t[n - 1] = 61 THEN 2 ELSE 1) ELSE 0

\* t is canonical padded URL-safe base64: whole quads of symbols, the last
\* one ending in at most two '=', the bits past the last byte zero
WellFormed(t) ==
    LET n == Len(t)
        pads == TrailingPads(t)
    IN  /\ n % 4 = 0
        /\ \A i \in 1..(n - pads) : t[i] \in UrlSafeChars
        /\ pads = 2 => UrlSafeIndex(t[n - 2]) % 16 = 0
        /\ pads = 1 => UrlSafeIndex(t[n - 1]) % 4 = 0

\* every char is a Unicode scalar value
ScalarValues(chars) ==
    \A i \in 1..Len(chars) :
        chars[i] \in 0..1114111 /\ ~(chars[i] \in 55296..57343)

Binary == adaptor \in {"base64", "base64_if_readable"}

\* the last call took the base64 path of a binary adaptor
TextPath == adaptor = "base64" \/ (adaptor = "base64_if_readable" /\ hr)

\* a deserialize has read a str token
DecodedText == pc = "done" /\ wire.kind = "str"

----------------------------------------------------------------------------
(* The claims.                                                             *)

\* C1: for every element width, container shape and legal value v, both
\* binary adaptors read back Ok(v) from what they wrote for v, under a
\* textual and under a binary format.
C1_RoundTrip ==
    (pc = "done" /\ Binary /\ item.some) => result = Ok(item.val)

\* C2: base64_if_readable writes exactly what base64 writes when the format
\* is textual and exactly the value's native tokens (no str) when it is
\* binary; it reads as base64 reads when textual and as the target's native
\* Deserialize reads when binary.
C2_FormatDiscrimination ==
    adaptor = "base64_if_readable" =>
        /\ (pc # "start" /\ item.some) =>
              IF hr THEN /\ wire = base64_serialize(item.val, target, endian)
                         /\ wire.kind = "str"
              ELSE /\ wire = NativeSerialize(item.val, target)
                   /\ wire.kind # "str"
        /\ pc = "done" =>
              IF hr THEN result = base64_deserialize(wire, target, ptr, endian)
              ELSE result = NativeDeserialize(wire, target)

C2_Witness ==
    /\ pc = "done" /\ adaptor = "base64_if_readable" /\ ~hr
    /\ item.some /\ Len(item.val) = 2 /\ target.shape = "Array"
    /\ wire.kind = "tuple" /\ result = Ok(item.val)

\* C3: base64_string writes one str token that is the padded URL-safe base64
\* of the string's UTF-8 bytes, whatever the format's flag, and reading it
\* back gives the string.
C3_StringRoundTrip ==
    (adaptor = "base64_string" /\ item.some) =>
        /\ pc # "start" =>
              /\ wire.kind = "str"
              /\ WellFormed(wire.data)
              /\ Decode(wire.data) = DecodeOk(AsBytes(item.val))
        /\ pc = "done" => result = Ok(item.val)

C3_Witness ==
    /\ pc = "done" /\ adaptor = "base64_string" /\ ~hr
    /\ item.some /\ item.val = <<8364, 65>> /\ result = Ok(item.val)

C5_LengthMismatchRejected ==
    (DecodedText /\ TextPath /\ Decode(wire.data).ok) =>
        LET n == Len(Decode(wire.data).bytes)
            w == SizeOf(target.U)
        IN  /\ (w > 1 /\ n % w # 0) => (~result.ok /\ result.val = <<>>)
            /\ w = 1 => result.kind # "cast"

C5_Witness ==
    /\ DecodedText /\ TextPath /\ target.U = "u16" /\ ptr % 2 = 0
    /\ Decode(wire.data).ok /\ Len(Decode(wire.data).bytes) = 3
    /\ ~result.ok /\ result.msg = MsgSlop

\* C6: reading into [U; N] a valid text of k whole elements fails with the
\* target's construction error when k # N and gives exactly those N
\* elements when k = N.
C6_FixedSizeCount ==
    (DecodedText /\ TextPath /\ target.shape = "Array" /\ Decode(wire.data).ok
        /\ Len(Decode(wire.data).bytes) % SizeOf(target.U) = 0) =>
        LET bytes == Decode(wire.data).bytes
            k == Len(bytes) \div SizeOf(target.U)
        IN  IF k = target.N
            THEN result = Ok(Elements(bytes, target.U, endian))
            ELSE ~result.ok /\ result.kind = "try_from"

\* C7: base64_string refuses a valid base64 text whose bytes are not UTF-8
\* and makes no string of them; base64 validity is checked first, UTF-8
\* validity second, the target's construction last, and the first check to
\* fail gives the error.
C7_InvalidUtf8Rejected ==
    (DecodedText /\ adaptor = "base64_string") =>
        IF ~WellFormed(wire.data) THEN ~result.ok /\ result.kind = "base64"
        ELSE
            LET bytes == Decode(wire.data).bytes IN
            /\ result.ok => /\ AsBytes(result.val) = bytes
                            /\ ScalarValues(result.val)
            /\ ~result.ok => /\ result.val = <<>>
                             /\ result.kind \in {"utf8", "try_from"}
            /\ result.kind = "try_from" =>
                  /\ FromUtf8(bytes).ok
                  /\ AsBytes(FromUtf8(bytes).chars) = bytes
                  /\ target.shape = "Bounded" /\ Len(bytes) > StrCap

C7_Witness ==
    /\ DecodedText /\ adaptor = "base64_string" /\ target.shape = "Bounded"
    /\ wire.data = <<95, 95, 95, 95>>
    /\ ~result.ok /\ result.kind = "utf8"

\* C8 as stated: every character the adaptors write as text is one of
\* A-Z a-z 0-9 - _.
C8_AlphabetOnly ==
    (pc = "serialized" /\ wire.kind = "str") =>
        \A i \in 1..Len(wire.data) : wire.data[i] \in UrlSafeChars

\* C8 amended: every character the adaptors write as text is one of
\* A-Z a-z 0-9 - _ or the padding '=' that ends the text (at most two, only
\* at the end); '+' and '/' never appear.
C8_AlphabetOrPadding ==
    (pc = "serialized" /\ wire.kind = "str") =>
        LET t == wire.data
            pads == TrailingPads(t)
        IN  /\ \A i \in 1..(Len(t) - pads) : t[i] \in UrlSafeChars
            /\ pads = (3 - (Len(IF target.kind = "string" THEN AsBytes(item.val)
                                ELSE CastSlice(item.val, target.U, endian)) % 3)) % 3
            /\ \A i \in 1..Len(t) : t[i] # 43 /\ t[i] # 47

C8_Witness ==
    /\ pc = "serialized" /\ adaptor = "base64" /\ item.val = <<251, 255>>
    /\ wire = StrToken(<<45, 95, 56, 61>>)

\* C9: the binary adaptors write the empty text for an empty sequence of any
\* element width, and read the empty text as the empty Vec or [U; 0]; into
\* [U; N] with N > 0 the empty text is refused.
C9_EmptySequence ==
    /\ (pc = "serialized" /\ TextPath /\ Len(item.val) = 0) => wire = StrToken(<<>>)
    /\ (DecodedText /\ TextPath /\ wire.data = <<>>) =>
          IF target.shape = "Vec" \/ target.N = 0 THEN result = Ok(<<>>)
          ELSE ~result.ok

\* C10: into Vec<u8> a binary adaptor accepts only the text the encoder
\* writes for the value it returns: canonical padding, zero trailing bits,
\* no '+' or '/'.
C10_StrictDecoding ==
    (DecodedText /\ TextPath /\ target.U = "u8" /\ target.shape = "Vec"
        /\ result.ok) =>
        /\ base64_serialize(result.val, target, endian) = wire
        /\ WellFormed(wire.data)
        /\ \A i \in 1..Len(wire.data) : wire.data[i] # 43 /\ wire.data[i] # 47

C10_Witness ==
    /\ DecodedText /\ adaptor = "base64" /\ ~item.some
    /\ target.U = "u8" /\ target.shape = "Vec"
    /\ wire.data = <<81, 81, 61, 61>> /\ result = Ok(<<65>>)

====
